---- MODULE Spec2Model ----
(***************************************************************************)
(* Video assembly pipeline of app/services/video.py: the transition        *)
(* compositor (combine_videos_with_transitions and its helpers) and the     *)
(* request handler create_simple_video that drives it; the capability       *)
(* probe detect_hardware_acceleration of app/utils/media.py with the        *)
(* encoder commands that depend on it; the narration-driven handler         *)
(* create_multi_voice_video of app/services/temp.py; the effect lookup      *)
(* get_motion_filter of app/services/motion.py and utils/video_filters.py;  *)
(* and the paths concurrently running operations put their intermediate     *)
(* files at.                                                                *)
(*                                                                          *)
(* Times are whole milliseconds.  A product with 0.5 or 0.33 is truncated   *)
(* to the millisecond.  A file is a record: st is "missing", "partial"      *)
(* (left behind by an encoder that exited non-zero) or "complete"; content  *)
(* is the sequence of input clip numbers whose pictures it shows, in order; *)
(* dur is its length.  The external encoder is a black box that either      *)
(* exits 0 (rc = 0) or not (rc = 1).                                        *)
(***************************************************************************)
EXTENDS Integers, Sequences, FiniteSets, TLC

\* ------------------------------------------------------------------ bounds
MaxClips == 17
VariedClips == 4
MaxImages == 6
MaxScripts == 3
MaxSegments == 2

\* ------------------------------------------------------- program constants
MAX_VIDEOS_PER_CHUNK == 4
HardCap == 2000
SimpleCap == 1500
DefaultProbeDuration == 5000
MinSegmentDuration == 2000

\* Durations of the clips handed to the compositor, and requested transitions.
ClipDurations == {2000, 6000}
TransitionDurations == {1000, 3000}

VARIABLES
    \* ---- compositor (combine_videos_with_transitions and helpers)
    cpc,                 \* position inside the compositor
    clips,               \* clips[i]: the file of rendered clip i
    video_paths,         \* argument of combine_videos_with_transitions
    transition_duration, \* requested transition duration
    durations,           \* probed durations of video_paths
    chunk_i,             \* loop variable i of _combine_videos_in_chunks
    chunk_results,       \* chunk_results of _combine_videos_in_chunks
    args,                \* arguments of the running _combine_videos_* call
    ctx,                 \* call site of the running _combine_videos_* call
    graph,               \* crossfades of the last chained filter graph
    pair_i,              \* loop variable i of _combine_videos_simple_transitions
    current_video,       \* current_video of _combine_videos_simple_transitions
    fs,                  \* files written by the compositor and the muxer
    stageLog,            \* stages entered for the current input list, in order
    levelLog,            \* call site, input count and exit code of every
                         \* chained encoder invocation, in order
    concat_rc,           \* exit code of the last concat process, -1 if none
    error,               \* exception leaving the compositor, "none" if none
    \* ---- request handler (create_simple_video)
    pc,                  \* position inside create_simple_video
    image_count,         \* len(request.image_urls)
    scripts,             \* character count of each script; <<>> if none given
    audio_duration,      \* length of the downloaded audio track
    segment_durations,   \* allocated duration of every segment
    motion_video_paths,  \* rendered clips collected so far
    render_i,            \* number of the clip being rendered
    render_calls,        \* calls of create_motion_video_from_image per clip
    encoder_runs,        \* effects of the encoder invocations made per clip
    exhausted,           \* clip whose retry failed, 0 if none
    combined_video_path, \* combined_video_path of the audio/transition step
    uploaded,            \* file handed to upload_to_do_spaces
    req_error,           \* exception leaving create_simple_video
    \* ---- capability probe (detect_hardware_acceleration) and commands
    hpc,                 \* position inside detect_hardware_acceleration
    ffmpeg_found,        \* answer of shutil.which, "unknown" before the call
    encoders_listed,     \* encoder names in the output of ffmpeg -encoders
    hw_config,           \* hw_config of detect_hardware_acceleration
    trials,              \* trial encodes run, in order, with their outcome
    probe_caught,        \* the except branch of the probe was entered
    cmds,                \* encoder commands built after the probe
    \* ---- multi-voice request (create_multi_voice_video)
    mpc,                 \* position inside create_multi_voice_video
    counts,              \* lengths of image_urls, scripts and voices
    audio_files,         \* true length of each downloaded narration file
    audio_durations,     \* audio_durations of create_multi_voice_video
    mv_clips,            \* motion clips rendered so far
    combined_segments,   \* segment files muxed so far
    mv_i,                \* loop index of the step being executed
    mv_ops,              \* collaborator calls and processes started so far
    mv_final,            \* file at final_video_path
    mv_uploaded,         \* file handed to upload_to_do_spaces
    mv_error,            \* exception leaving create_multi_voice_video
    \* ---- motion filter lookup (get_motion_filter)
    fpc,                 \* position of the get_motion_filter call
    motion_type,         \* argument motion_type
    filter_frames,       \* argument total_frames
    filter_fps,          \* argument fps
    filter_result,       \* what each of the two get_motion_filter gave
    \* ---- temporary files of concurrently running operations
    wpc,                 \* position of each running operation
    wkind,               \* which operation each one is
    touched,             \* intermediate paths each one has read or written
    next_uuid            \* number of uuid4() values drawn so far

cvars == <<cpc, clips, video_paths, transition_duration, durations, chunk_i,
           chunk_results, args, ctx, graph, pair_i, current_video, fs,
           stageLog, levelLog, concat_rc, error>>

rvars == <<pc, image_count, scripts, audio_duration, segment_durations,
           motion_video_paths, render_i, render_calls, encoder_runs, exhausted,
           combined_video_path, uploaded, req_error>>

hvars == <<hpc, ffmpeg_found, encoders_listed, hw_config, trials,
           probe_caught, cmds>>

mvars == <<mpc, counts, audio_files, audio_durations, mv_clips,
           combined_segments, mv_i, mv_ops, mv_final, mv_uploaded, mv_error>>

fvars == <<fpc, motion_type, filter_frames, filter_fps, filter_result>>

wvars == <<wpc, wkind, touched, next_uuid>>

vars == <<cvars, rvars, hvars, mvars, fvars, wvars>>

\* ----------------------------------------------------------------- helpers
Min(a, b) == IF a <= b THEN a ELSE b
Max(a, b) == IF a >= b THEN a ELSE b
Min3(a, b, c) == Min(a, Min(b, c))

RECURSIVE Flatten(_)
Flatten(ss) == IF ss = <<>> THEN <<>> ELSE Head(ss) \o Flatten(Tail(ss))

RECURSIVE SumSeq(_)
SumSeq(s) == IF s = <<>> THEN 0 ELSE Head(s) + SumSeq(Tail(s))

\* ------------------------------------------------------------------- files
ClipPath(i) == [kind |-> "clip", idx |-> i]
ChunkPath(i) == [kind |-> "chunk", idx |-> i]
TempPath(i) == [kind |-> "temp_transition", idx |-> i]
OutputPath == [kind |-> "output", idx |-> 0]
ConcatPath == [kind |-> "combined", idx |-> 0]
FinalPath == [kind |-> "final", idx |-> 0]
\* the audio track create_simple_video downloads into its own
\* TEMP_DIR/<uuid> directory, video.py 45-49
AudioPath == [kind |-> "audio", idx |-> 0]

ChunkStarts == {i \in 0..MaxClips : i % MAX_VIDEOS_PER_CHUNK = 0}

WrittenPaths ==
    {ChunkPath(i) : i \in ChunkStarts}
        \cup {TempPath(i) : i \in 1..MaxClips}
        \cup {OutputPath, ConcatPath, FinalPath, AudioPath}

NoFile == [st |-> "missing", content |-> <<>>, dur |-> 0]
PartialFile == [st |-> "partial", content |-> <<>>, dur |-> 0]

FileAt(p) ==
    IF p.kind = "clip"
    THEN (IF p.idx \in 1..Len(clips) THEN clips[p.idx] ELSE NoFile)
    ELSE fs[p]

\* get_video_duration: ffprobe's answer, 5.0 when ffprobe fails
get_video_duration(p) ==
    IF FileAt(p).st = "complete" THEN FileAt(p).dur ELSE DefaultProbeDuration

\* ------------------------------------------- chained filter graph (pure)
\* Pair k (2 <= k <= n) joins inputs k-1 and k; Python's i is k-1.
\* the requested transition duration taken as it is
safe_transition_uncapped(durs, td, k) == td

safe_transition(durs, td, k) == Min3(td, durs[k - 1] \div 2, HardCap)

RECURSIVE current_duration(_, _, _)
current_duration(durs, td, k) ==
    IF k = 1 THEN durs[1]
    ELSE current_duration(durs, td, k - 1) + durs[k] - safe_transition(durs, td, k)

xfade_offset(durs, td, k) ==
    Max(0, current_duration(durs, td, k - 1) - safe_transition(durs, td, k))

FilterGraph(durs, td) ==
    [j \in 1..(Len(durs) - 1) |->
        [xfade_duration |-> safe_transition(durs, td, j + 1),
         xfade_offset |-> xfade_offset(durs, td, j + 1),
         acrossfade_d |-> safe_transition(durs, td, j + 1)]]

\* What the encoder writes for a filter graph g over the input files fl:
\* the inputs' pictures in input order; an xfade output ends offset + length
\* of its second input after its start.
ChainedOutput(fl, g) ==
    [st |-> "complete",
     content |-> Flatten([j \in 1..Len(fl) |-> fl[j].content]),
     dur |-> IF Len(fl) = 1 THEN fl[1].dur
             ELSE g[Len(g)].xfade_offset + fl[Len(fl)].dur]

\* ---------------------------------------------- pairwise crossfade (pure)
simple_safe_transition(td, cur) == Min3(td, (cur * 33) \div 100, SimpleCap)

\* the -filter_complex of one pairwise step, video.py 462-474: a single
\* xfade filter; the two audio streams get no filter.
simple_filter(td, cur) ==
    [xfade_duration |-> simple_safe_transition(td, cur),
     xfade_offset |-> Max(0, cur - simple_safe_transition(td, cur))]

\* the two inputs handed to the encoder in the wrong order
PairOutput_swapped(cur, nxt, td) ==
    [st |-> "complete",
     content |-> nxt.content \o cur.content,
     dur |-> Max(0, cur.dur - simple_safe_transition(td, cur.dur)) + nxt.dur]

PairOutput(cur, nxt, td) ==
    [st |-> "complete",
     content |-> cur.content \o nxt.content,
     dur |-> Max(0, cur.dur - simple_safe_transition(td, cur.dur)) + nxt.dur]

\* ------------------------------------------------- stream-copy concat
ConcatOutput(fl) ==
    [st |-> "complete",
     content |-> Flatten([j \in 1..Len(fl) |-> fl[j].content]),
     dur |-> SumSeq([j \in 1..Len(fl) |-> fl[j].dur])]

AllComplete(paths) == \A j \in 1..Len(paths) : FileAt(paths[j]).st = "complete"

\* chunk_videos = video_paths[i : i + MAX_VIDEOS_PER_CHUNK]
\* slice end off by one
ChunkSlice_short(s, i) == SubSeq(s, i + 1, Min(i + MAX_VIDEOS_PER_CHUNK - 1, Len(s)))

ChunkSlice(s, i) == SubSeq(s, i + 1, Min(i + MAX_VIDEOS_PER_CHUNK, Len(s)))

NoArgs == [paths |-> <<>>, out |-> OutputPath, durs |-> <<>>]

\* ---------------------------------------------- parts not taking part
\* hw_config as initialised at media.py 35-42; None is "None".
InitialHwConfig ==
    [available |-> FALSE, nvidia |-> FALSE, intel |-> FALSE,
     encoder |-> "None", decoder |-> "None", hwaccel |-> "None"]

\* detect_hardware_acceleration is not part of the behaviour.
ProbeIdle ==
    /\ hpc = "unused"
    /\ ffmpeg_found = "unknown"
    /\ encoders_listed = {}
    /\ hw_config = InitialHwConfig
    /\ trials = <<>>
    /\ probe_caught = FALSE
    /\ cmds = {}

\* get_motion_filter is not part of the behaviour.
FilterIdle ==
    /\ fpc = "unused"
    /\ motion_type = "stable"
    /\ filter_frames = 0
    /\ filter_fps = 0
    /\ filter_result = <<>>

\* No concurrently running operations are part of the behaviour.
WorkspaceIdle ==
    /\ wpc = <<>>
    /\ wkind = <<>>
    /\ touched = <<>>
    /\ next_uuid = 0

NoOps == [synth |-> 0, download |-> 0, render |-> 0, mux |-> 0, concat |-> 0]

\* create_multi_voice_video is not part of the behaviour.
MultiVoiceIdle ==
    /\ mpc = "unused"
    /\ counts = [images |-> 0, scripts |-> 0, voices |-> 0]
    /\ audio_files = <<>>
    /\ audio_durations = <<>>
    /\ mv_clips = <<>>
    /\ combined_segments = <<>>
    /\ mv_i = 0
    /\ mv_ops = NoOps
    /\ mv_final = NoFile
    /\ mv_uploaded = NoFile
    /\ mv_error = "none"

\* --------------------------------------------------------------- initial
\* A direct call of combine_videos_with_transitions on n existing clips.
\* Clips after the first VariedClips all have the length of clip VariedClips.
InitCombine ==
    /\ FilterIdle
    /\ WorkspaceIdle
    /\ ProbeIdle
    /\ MultiVoiceIdle
    /\ \E n \in 0..MaxClips :
        \E d \in [1..Min(n, VariedClips) -> ClipDurations] :
            /\ clips = [i \in 1..n |->
                          [st |-> "complete", content |-> <<i>>,
                           dur |-> d[Min(i, VariedClips)]]]
            /\ video_paths = [i \in 1..n |-> ClipPath(i)]
    /\ transition_duration \in TransitionDurations
    /\ cpc = "call"
    /\ durations = <<>>
    /\ chunk_i = 0
    /\ chunk_results = <<>>
    /\ args = NoArgs
    /\ ctx = "none"
    /\ graph = <<>>
    /\ pair_i = 0
    /\ current_video = OutputPath
    /\ fs = [p \in WrittenPaths |-> NoFile]
    /\ stageLog = <<>>
    /\ levelLog = <<>>
    /\ concat_rc = -1
    /\ error = "none"
    /\ pc = "library"
    /\ image_count = 0
    /\ scripts = <<>>
    /\ audio_duration = 0
    /\ segment_durations = <<>>
    /\ motion_video_paths = <<>>
    /\ render_i = 0
    /\ render_calls = <<>>
    /\ encoder_runs = <<>>
    /\ exhausted = 0
    /\ combined_video_path = OutputPath
    /\ uploaded = NoFile
    /\ req_error = "none"

\* ------------------------------------------------ call / return plumbing
\* Entering _combine_videos_with_transitions(paths, out, durs) from site c.
EnterChained(paths, out, durs, c) ==
    /\ args' = [paths |-> paths, out |-> out, durs |-> durs]
    /\ ctx' = c
    /\ cpc' = "chained"
    /\ stageLog' = <<"chained">>
    /\ concat_rc' = -1

\* The running _combine_videos_* call returns args.out to its call site.
LevelReturns ==
    IF ctx \in {"chunk", "chunk_fallback"}
    THEN /\ chunk_results' = Append(chunk_results, args.out)
         /\ chunk_i' = chunk_i + MAX_VIDEOS_PER_CHUNK
         /\ cpc' = "chunk_loop"
         /\ error' = "none"
         /\ UNCHANGED ctx
    ELSE /\ cpc' = "returned"
         /\ error' = "none"
         /\ UNCHANGED <<chunk_results, chunk_i, ctx>>

\* The running _combine_videos_* call raises e to its call site.  Only the
\* try around a chunk's chained combine catches it (video.py 303-314) and
\* calls _combine_videos_simple_transitions on the same chunk.
LevelRaises(e) ==
    IF ctx = "chunk"
    THEN /\ ctx' = "chunk_fallback"
         /\ cpc' = "pairwise"
         /\ pair_i' = 1
         /\ current_video' = args.paths[1]
         /\ stageLog' = Append(stageLog, "pairwise")
         /\ error' = "none"
    ELSE /\ cpc' = "raised"
         /\ error' = e
         /\ UNCHANGED <<ctx, pair_i, current_video, stageLog>>

\* ------------------------------------------------------------- actions
\* combine_videos_with_transitions, video.py 245-283
CombineEntry ==
    /\ UNCHANGED <<rvars, hvars, mvars, fvars, wvars>>
    /\ cpc = "call"
    /\ IF Len(video_paths) < 2
       THEN /\ cpc' = "raised"
            /\ error' = "ValueError"
            /\ UNCHANGED <<durations, chunk_i, chunk_results, args, ctx,
                           stageLog, concat_rc>>
       ELSE LET durs == [j \in 1..Len(video_paths) |->
                            get_video_duration(video_paths[j])]
            IN /\ durations' = durs
               /\ IF Len(video_paths) > MAX_VIDEOS_PER_CHUNK
                  THEN /\ cpc' = "chunk_loop"
                       /\ chunk_i' = 0
                       /\ chunk_results' = <<>>
                       /\ UNCHANGED <<args, ctx, stageLog, concat_rc>>
                  ELSE /\ EnterChained(video_paths, OutputPath, durs, "single")
                       /\ UNCHANGED <<chunk_i, chunk_results>>
               /\ UNCHANGED error
    /\ UNCHANGED <<clips, video_paths, transition_duration, graph, pair_i,
                   current_video, fs, levelLog>>

\* _combine_videos_in_chunks, loop body up to the chunk's call, video.py 296-306
ChunkStart ==
    /\ UNCHANGED <<rvars, hvars, mvars, fvars, wvars>>
    /\ cpc = "chunk_loop"
    /\ chunk_i < Len(video_paths)
    /\ EnterChained(ChunkSlice(video_paths, chunk_i), ChunkPath(chunk_i),
                    ChunkSlice(durations, chunk_i), "chunk")
    /\ UNCHANGED <<clips, video_paths, transition_duration, durations, chunk_i,
                   chunk_results, graph, pair_i, current_video, fs, levelLog,
                   error>>

\* _combine_videos_in_chunks after the loop, video.py 316-331.  The branch
\* len(chunk_results) == 1 needs at most MAX_VIDEOS_PER_CHUNK inputs, which
\* combine_videos_with_transitions never passes.
ChunksCombine ==
    /\ UNCHANGED <<rvars, hvars, mvars, fvars, wvars>>
    /\ cpc = "chunk_loop"
    /\ chunk_i >= Len(video_paths)
    /\ Len(chunk_results) # 1
    /\ EnterChained(chunk_results, OutputPath,
                    [j \in 1..Len(chunk_results) |->
                        get_video_duration(chunk_results[j])],
                    "final")
    /\ UNCHANGED <<clips, video_paths, transition_duration, durations, chunk_i,
                   chunk_results, graph, pair_i, current_video, fs, levelLog,
                   error>>

\* _combine_videos_with_transitions, video.py 334-436, encoder exits 0
ChainedOk ==
    /\ UNCHANGED <<rvars, hvars, mvars, fvars, wvars>>
    /\ cpc = "chained"
    /\ AllComplete(args.paths)
    /\ LET g == FilterGraph(args.durs, transition_duration)
           fl == [j \in 1..Len(args.paths) |-> FileAt(args.paths[j])]
       IN /\ graph' = g
          /\ fs' = [fs EXCEPT ![args.out] = ChainedOutput(fl, g)]
    /\ levelLog' = Append(levelLog, [site |-> ctx, inputs |-> Len(args.paths), rc |-> 0])
    /\ LevelReturns
    /\ UNCHANGED <<clips, video_paths, transition_duration, durations, args,
                   pair_i, current_video, stageLog, concat_rc>>

\* _combine_videos_with_transitions, encoder exits non-zero: video.py 425-433
ChainedFail ==
    /\ UNCHANGED <<rvars, hvars, mvars, fvars, wvars>>
    /\ cpc = "chained"
    /\ graph' = FilterGraph(args.durs, transition_duration)
    /\ fs' = [fs EXCEPT ![args.out] = PartialFile]
    /\ levelLog' = Append(levelLog, [site |-> ctx, inputs |-> Len(args.paths), rc |-> 1])
    /\ cpc' = "pairwise"
    /\ pair_i' = 1
    /\ current_video' = args.paths[1]
    /\ stageLog' = Append(stageLog, "pairwise")
    /\ UNCHANGED <<clips, video_paths, transition_duration, durations, chunk_i,
                   chunk_results, args, ctx, concat_rc, error>>

\* _combine_videos_simple_transitions, one loop iteration whose encoder
\* exits 0: video.py 453-502
PairwiseStepOk ==
    /\ UNCHANGED <<rvars, hvars, mvars, fvars, wvars>>
    /\ cpc = "pairwise"
    /\ pair_i < Len(args.paths)
    /\ FileAt(current_video).st = "complete"
    /\ FileAt(args.paths[pair_i + 1]).st = "complete"
    /\ fs' = [fs EXCEPT ![TempPath(pair_i)] =
                 PairOutput([FileAt(current_video) EXCEPT
                                !.dur = get_video_duration(current_video)],
                            FileAt(args.paths[pair_i + 1]),
                            transition_duration)]
    /\ current_video' = TempPath(pair_i)
    /\ pair_i' = pair_i + 1
    /\ UNCHANGED <<cpc, clips, video_paths, transition_duration, durations,
                   chunk_i, chunk_results, args, ctx, graph, stageLog,
                   levelLog, concat_rc, error>>

\* one loop iteration whose encoder exits non-zero: video.py 494-499 calls
\* combine_videos_with_audio(video_paths, None)
PairwiseStepFail ==
    /\ UNCHANGED <<rvars, hvars, mvars, fvars, wvars>>
    /\ cpc = "pairwise"
    /\ pair_i < Len(args.paths)
    /\ fs' = [fs EXCEPT ![TempPath(pair_i)] = PartialFile]
    /\ cpc' = "concat"
    /\ stageLog' = Append(stageLog, "concat")
    /\ UNCHANGED <<clips, video_paths, transition_duration, durations, chunk_i,
                   chunk_results, args, ctx, graph, pair_i, current_video,
                   levelLog, concat_rc, error>>

\* _combine_videos_simple_transitions after the loop: video.py 504-518
PairwiseFinish ==
    /\ UNCHANGED <<rvars, hvars, mvars, fvars, wvars>>
    /\ cpc = "pairwise"
    /\ pair_i >= Len(args.paths)
    /\ fs' = [p \in WrittenPaths |->
                IF p = args.out THEN FileAt(current_video)
                ELSE IF p.kind = "temp_transition" /\ p.idx \in 1..(Len(args.paths) - 1)
                     THEN NoFile
                     ELSE fs[p]]
    /\ LevelReturns
    /\ UNCHANGED <<clips, video_paths, transition_duration, durations, args,
                   graph, pair_i, current_video, stageLog, levelLog, concat_rc>>

\* combine_videos_with_audio(video_paths, None), media.py 183-346.  A concat
\* process that exits non-zero raises (230-233).  One that exits 0 is followed
\* by audio_cmd = [..., "-i", None, ...], and ' '.join(audio_cmd) in the log
\* line 314-316 raises TypeError before any second process is started.
Concat ==
    /\ UNCHANGED <<rvars, hvars, mvars, fvars, wvars>>
    /\ cpc = "concat"
    /\ \E rc \in {0, 1} :
        /\ rc = 0 => AllComplete(args.paths)
        /\ concat_rc' = rc
        /\ IF rc = 0
           THEN /\ fs' = [fs EXCEPT ![ConcatPath] =
                            ConcatOutput([j \in 1..Len(args.paths) |->
                                             FileAt(args.paths[j])])]
                /\ LevelRaises("TypeError")
           ELSE /\ fs' = [fs EXCEPT ![ConcatPath] = PartialFile]
                /\ LevelRaises("Failed to combine videos")
    /\ UNCHANGED <<clips, video_paths, transition_duration, durations, chunk_i,
                   chunk_results, args, graph, levelLog>>

NextCombine ==
    \/ CombineEntry
    \/ ChunkStart
    \/ ChunksCombine
    \/ ChainedOk
    \/ ChainedFail
    \/ PairwiseStepOk
    \/ PairwiseStepFail
    \/ PairwiseFinish
    \/ Concat

SpecCombine == InitCombine /\ [][NextCombine]_vars

\* ===================================================== create_simple_video
\* Lengths of the audio track and character counts of the scripts.
AudioDurations == {12000, 60000}
ScriptLengths == {10, 20, 30}

\* fps and total_frames of create_motion_video_from_image, motion.py 309-310:
\* int() drops the fraction of duration * fps.
fps == 30
total_frames(duration) == (duration * fps) \div 1000

\* The file a successful create_motion_video_from_image(image_urls[i], d)
\* leaves (motion.py 286-370): the pictures of image i, cut by -t to d.
\* every clip rendered from the first image
RenderedClip_firstimage(i, d) == [st |-> "complete", content |-> <<1>>, dur |-> d]

RenderedClip(i, d) == [st |-> "complete", content |-> <<i>>, dur |-> d]

\* adjusted_audio_duration, video.py 72-79 and 162-169
adjusted_audio_duration(audio, td, n) ==
    Max(audio - (IF n > 1 THEN td * (n - 1) ELSE 0), (audio * 9) \div 10)

\* segment durations of the script branch, video.py 66-93
script_segment_durations(sc, audio, td) ==
    LET total_chars == SumSeq(sc)
        adjusted == adjusted_audio_duration(audio, td, Len(sc))
    IN [j \in 1..Len(sc) |->
          Max(IF total_chars > 0 THEN (adjusted * sc[j]) \div total_chars
              ELSE adjusted \div Len(sc),
              MinSegmentDuration)]

\* segment durations without scripts, video.py 162-172
equal_segment_durations(n, audio, td) ==
    [j \in 1..n |-> adjusted_audio_duration(audio, td, n) \div n]

\* What the audio mux leaves at final_video_path, video.py 552-594: the muxed
\* file (cut to the shorter input by -shortest), or after a non-zero exit a
\* copy of the combined video.
\* no copy of the combined video after a failed mux
MuxResult_nocopy(rc, combined, audio) ==
    IF rc = 0
    THEN [st |-> "complete", content |-> combined.content,
          dur |-> Min(combined.dur, audio)]
    ELSE PartialFile

MuxResult(rc, combined, audio) ==
    IF rc = 0
    THEN [st |-> "complete", content |-> combined.content,
          dur |-> Min(combined.dur, audio)]
    ELSE combined

\* Where the render loop goes after the retry of clip i raised: the exception
\* leaves the loop and reaches the handler at video.py 201-203.
\* the retry's exception swallowed: the loop goes on
AfterRetryRaises_swallowed(i) == "render"

AfterRetryRaises(i) == "failed"

InitRequest ==
    /\ FilterIdle
    /\ WorkspaceIdle
    /\ ProbeIdle
    /\ MultiVoiceIdle
    /\ image_count \in 0..MaxImages
    /\ scripts \in {<<>>} \cup UNION {[1..m -> ScriptLengths] : m \in 1..MaxScripts}
    /\ audio_duration \in AudioDurations
    /\ transition_duration \in TransitionDurations
    /\ pc = "start"
    /\ segment_durations = <<>>
    /\ motion_video_paths = <<>>
    /\ render_i = 0
    /\ render_calls = [i \in 1..image_count |-> 0]
    /\ encoder_runs = [i \in 1..image_count |-> <<>>]
    /\ exhausted = 0
    /\ combined_video_path = OutputPath
    /\ uploaded = NoFile
    /\ req_error = "none"
    /\ cpc = "idle"
    /\ clips = <<>>
    /\ video_paths = <<>>
    /\ durations = <<>>
    /\ chunk_i = 0
    /\ chunk_results = <<>>
    /\ args = NoArgs
    /\ ctx = "none"
    /\ graph = <<>>
    /\ pair_i = 0
    /\ current_video = OutputPath
    /\ fs = [p \in WrittenPaths |-> NoFile]
    /\ stageLog = <<>>
    /\ levelLog = <<>>
    /\ concat_rc = -1
    /\ error = "none"

\* The request ends with the exception e (video.py 201-203).
Fails(e) ==
    /\ pc' = "failed"
    /\ req_error' = e

\* input validation, video.py 41-43
Validate ==
    /\ UNCHANGED <<hvars, mvars, fvars, wvars>>
    /\ pc = "start"
    /\ IF scripts # <<>> /\ image_count # Len(scripts)
       THEN Fails("ValueError")
       ELSE pc' = "download_audio" /\ UNCHANGED req_error
    /\ UNCHANGED <<cvars, image_count, scripts, audio_duration,
                   segment_durations, motion_video_paths, render_i,
                   render_calls, encoder_runs, exhausted, combined_video_path,
                   uploaded>>

\* download of the audio track and duration allocation, video.py 46-93 and
\* 160-172.  Without scripts and without images the division by
\* len(request.image_urls) raises ZeroDivisionError.  The downloaded track
\* stays in the directory made at video.py 46-47.
DownloadAndAllocate ==
    /\ UNCHANGED <<hvars, mvars, fvars, wvars>>
    /\ pc = "download_audio"
    /\ \E ok \in BOOLEAN :
        /\ fs' = IF ok
                 THEN [fs EXCEPT ![AudioPath] =
                          [st |-> "complete", content |-> <<>>,
                           dur |-> audio_duration]]
                 ELSE fs
        /\ IF ~ok THEN Fails("download failed") /\ UNCHANGED <<segment_durations, render_i>>
           ELSE IF scripts # <<>>
           THEN /\ segment_durations' =
                      script_segment_durations(scripts, audio_duration, transition_duration)
                /\ render_i' = 1
                /\ pc' = "render"
                /\ UNCHANGED req_error
           ELSE IF image_count = 0
           THEN Fails("ZeroDivisionError") /\ UNCHANGED <<segment_durations, render_i>>
           ELSE /\ segment_durations' =
                      equal_segment_durations(image_count, audio_duration, transition_duration)
                /\ render_i' = 1
                /\ pc' = "render"
                /\ UNCHANGED req_error
    /\ UNCHANGED <<cpc, clips, video_paths, transition_duration, durations,
                   chunk_i, chunk_results, args, ctx, graph, pair_i,
                   current_video, stageLog, levelLog, concat_rc, error>>
    /\ UNCHANGED <<image_count, scripts, audio_duration,
                   motion_video_paths, render_calls, encoder_runs, exhausted,
                   combined_video_path, uploaded>>

\* first render call of a clip in the script branch, video.py 105-117:
\* create_motion_video_from_image(image_url, duration) (motion.py 286) takes
\* no script or voice argument, so the call raises TypeError before anything
\* is downloaded or encoded, and the except branch is entered.
RenderWithScript ==
    /\ UNCHANGED <<hvars, mvars, fvars, wvars>>
    /\ pc = "render"
    /\ scripts # <<>>
    /\ render_i <= image_count
    /\ render_calls' = [render_calls EXCEPT ![render_i] = @ + 1]
    /\ pc' = "retry"
    /\ UNCHANGED <<cvars, image_count, scripts, audio_duration,
                   segment_durations, motion_video_paths, render_i,
                   encoder_runs, exhausted, combined_video_path, uploaded,
                   req_error>>

\* first render call of a clip without scripts, video.py 181-189, with
\* create_motion_video_from_image, motion.py 286-370: the image download may
\* fail; the encoder runs the slow_drift effect and exits 0 or not.
RenderPlain ==
    /\ UNCHANGED <<hvars, mvars, fvars, wvars>>
    /\ pc = "render"
    /\ scripts = <<>>
    /\ render_i <= image_count
    /\ render_calls' = [render_calls EXCEPT ![render_i] = @ + 1]
    /\ \E outcome \in {"ok", "download failed", "encoder failed"} :
        /\ encoder_runs' = IF outcome = "download failed" THEN encoder_runs
                           ELSE [encoder_runs EXCEPT ![render_i] = Append(@, "slow_drift")]
        /\ IF outcome = "ok"
           THEN /\ clips' = Append(clips, RenderedClip(render_i, segment_durations[render_i]))
                /\ motion_video_paths' = Append(motion_video_paths, ClipPath(render_i))
                /\ render_i' = render_i + 1
                /\ UNCHANGED pc
           ELSE /\ clips' = Append(clips, IF outcome = "encoder failed"
                                          THEN PartialFile ELSE NoFile)
                /\ pc' = "retry"
                /\ UNCHANGED <<motion_video_paths, render_i>>
    /\ UNCHANGED <<cpc, video_paths, transition_duration, durations, chunk_i,
                   chunk_results, args, ctx, graph, pair_i, current_video, fs,
                   stageLog, levelLog, concat_rc, error>>
    /\ UNCHANGED <<image_count, scripts, audio_duration, segment_durations,
                   exhausted, combined_video_path, uploaded, req_error>>

\* the retry in the except branch, video.py 118-123 and 190-194: the call
\* passes motion_type="stable", which create_motion_video_from_image
\* (motion.py 286) does not accept; TypeError is raised before any download or
\* encoder invocation and leaves create_simple_video through video.py 201-203.
RetryStable ==
    /\ UNCHANGED <<hvars, mvars, fvars, wvars>>
    /\ pc = "retry"
    /\ render_calls' = [render_calls EXCEPT ![render_i] = @ + 1]
    /\ exhausted' = render_i
    /\ pc' = AfterRetryRaises(render_i)
    /\ req_error' = "TypeError"
    /\ UNCHANGED <<cvars, image_count, scripts, audio_duration,
                   segment_durations, motion_video_paths, render_i,
                   encoder_runs, combined_video_path, uploaded>>

\* end of the render loop and entry of combine_videos_with_audio_and_transitions,
\* video.py 196-199 and 521-540
StartCombine ==
    /\ UNCHANGED <<hvars, mvars, fvars, wvars>>
    /\ \/ pc = "render" /\ render_i > image_count
       \/ pc = "assemble"
    /\ IF Len(motion_video_paths) = 1
       THEN /\ combined_video_path' = motion_video_paths[1]
            /\ pc' = "mux"
            /\ UNCHANGED <<cpc, video_paths>>
       ELSE /\ video_paths' = motion_video_paths
            /\ cpc' = "call"
            /\ pc' = "combining"
            /\ UNCHANGED combined_video_path
    /\ UNCHANGED <<clips, transition_duration, durations, chunk_i,
                   chunk_results, args, ctx, graph, pair_i, current_video, fs,
                   stageLog, levelLog, concat_rc, error>>
    /\ UNCHANGED <<image_count, scripts, audio_duration, segment_durations,
                   motion_video_paths, render_i, render_calls, encoder_runs,
                   exhausted, uploaded, req_error>>

\* combine_videos_with_transitions returned, video.py 538-540
CombineReturned ==
    /\ UNCHANGED <<hvars, mvars, fvars, wvars>>
    /\ pc = "combining"
    /\ cpc = "returned"
    /\ combined_video_path' = OutputPath
    /\ pc' = "mux"
    /\ UNCHANGED <<cvars, image_count, scripts, audio_duration,
                   segment_durations, motion_video_paths, render_i,
                   render_calls, encoder_runs, exhausted, uploaded, req_error>>

\* combine_videos_with_transitions raised, video.py 541-545: the except branch
\* calls combine_videos_with_audio(video_paths, None), which raises whatever
\* its concat process does (see Concat).
CombineRaised ==
    /\ UNCHANGED <<hvars, mvars, fvars, wvars>>
    /\ pc = "combining"
    /\ cpc = "raised"
    /\ \E rc \in {0, 1} :
        /\ rc = 0 => AllComplete(video_paths)
        /\ concat_rc' = rc
        /\ fs' = [fs EXCEPT ![ConcatPath] =
                     IF rc = 0
                     THEN ConcatOutput([j \in 1..Len(video_paths) |->
                                           FileAt(video_paths[j])])
                     ELSE PartialFile]
        /\ Fails(IF rc = 0 THEN "TypeError" ELSE "Failed to combine videos")
    /\ UNCHANGED <<cpc, clips, video_paths, transition_duration, durations,
                   chunk_i, chunk_results, args, ctx, graph, pair_i,
                   current_video, stageLog, levelLog, error>>
    /\ UNCHANGED <<image_count, scripts, audio_duration, segment_durations,
                   motion_video_paths, render_i, render_calls, encoder_runs,
                   exhausted, combined_video_path, uploaded>>

\* the audio mux, video.py 547-594.  audio_path is the path download_file
\* returned, so the branch without audio is not taken.
Mux ==
    /\ UNCHANGED <<hvars, mvars, fvars, wvars>>
    /\ pc = "mux"
    /\ \E rc \in {0, 1} :
        /\ rc = 0 => FileAt(combined_video_path).st = "complete"
        /\ fs' = [fs EXCEPT ![FinalPath] =
                     MuxResult(rc, FileAt(combined_video_path), audio_duration)]
    /\ pc' = "upload"
    /\ UNCHANGED <<cpc, clips, video_paths, transition_duration, durations,
                   chunk_i, chunk_results, args, ctx, graph, pair_i,
                   current_video, stageLog, levelLog, concat_rc, error>>
    /\ UNCHANGED <<image_count, scripts, audio_duration, segment_durations,
                   motion_video_paths, render_i, render_calls, encoder_runs,
                   exhausted, combined_video_path, uploaded, req_error>>

\* upload and cleanup, video.py 596-613 with upload_to_do_spaces,
\* upload.py 31-121: a missing file or a failed transfer raises; after the
\* upload the temporary directory of the combine step is removed.
Upload ==
    /\ UNCHANGED <<hvars, mvars, fvars, wvars>>
    /\ pc = "upload"
    /\ \E ok \in BOOLEAN :
        IF fs[FinalPath].st = "missing" \/ ~ok
        THEN Fails("Upload failed") /\ UNCHANGED <<uploaded, fs>>
        ELSE /\ uploaded' = fs[FinalPath]
             /\ fs' = [p \in WrittenPaths |->
                         IF p.kind \in {"output", "chunk", "temp_transition"}
                         THEN NoFile ELSE fs[p]]
             /\ pc' = "returned"
             /\ UNCHANGED req_error
    /\ UNCHANGED <<cpc, clips, video_paths, transition_duration, durations,
                   chunk_i, chunk_results, args, ctx, graph, pair_i,
                   current_video, stageLog, levelLog, concat_rc, error>>
    /\ UNCHANGED <<image_count, scripts, audio_duration, segment_durations,
                   motion_video_paths, render_i, render_calls, encoder_runs,
                   exhausted, combined_video_path>>

Next ==
    \/ Validate
    \/ DownloadAndAllocate
    \/ RenderWithScript
    \/ RenderPlain
    \/ RetryStable
    \/ StartCombine
    \/ CombineEntry
    \/ ChunkStart
    \/ ChunksCombine
    \/ ChainedOk
    \/ ChainedFail
    \/ PairwiseStepOk
    \/ PairwiseStepFail
    \/ PairwiseFinish
    \/ Concat
    \/ CombineReturned
    \/ CombineRaised
    \/ Mux
    \/ Upload

Spec == InitRequest /\ [][Next]_vars

\* ------------------------- combine_videos_with_audio_and_transitions alone
\* A direct call of combine_videos_with_audio_and_transitions(video_paths,
\* audio_path, transition_duration), video.py 521-523, on n existing clips;
\* motion_video_paths holds its argument video_paths.
InitAssemble ==
    /\ FilterIdle
    /\ WorkspaceIdle
    /\ ProbeIdle
    /\ MultiVoiceIdle
    /\ \E n \in 0..MaxImages :
        \E d \in [1..Min(n, VariedClips) -> ClipDurations] :
            /\ clips = [i \in 1..n |->
                          [st |-> "complete", content |-> <<i>>,
                           dur |-> d[Min(i, VariedClips)]]]
            /\ motion_video_paths = [i \in 1..n |-> ClipPath(i)]
    /\ audio_duration \in AudioDurations
    /\ transition_duration \in TransitionDurations
    /\ pc = "assemble"
    /\ image_count = 0
    /\ scripts = <<>>
    /\ segment_durations = <<>>
    /\ render_i = 0
    /\ render_calls = <<>>
    /\ encoder_runs = <<>>
    /\ exhausted = 0
    /\ combined_video_path = OutputPath
    /\ uploaded = NoFile
    /\ req_error = "none"
    /\ cpc = "idle"
    /\ video_paths = <<>>
    /\ durations = <<>>
    /\ chunk_i = 0
    /\ chunk_results = <<>>
    /\ args = NoArgs
    /\ ctx = "none"
    /\ graph = <<>>
    /\ pair_i = 0
    /\ current_video = OutputPath
    /\ fs = [p \in WrittenPaths |-> NoFile]
    /\ stageLog = <<>>
    /\ levelLog = <<>>
    /\ concat_rc = -1
    /\ error = "none"

NextAssemble ==
    \/ StartCombine
    \/ CombineEntry
    \/ ChunkStart
    \/ ChunksCombine
    \/ ChainedOk
    \/ ChainedFail
    \/ PairwiseStepOk
    \/ PairwiseStepFail
    \/ PairwiseFinish
    \/ Concat
    \/ CombineReturned
    \/ CombineRaised
    \/ Mux
    \/ Upload

SpecAssemble == InitAssemble /\ [][NextAssemble]_vars

\* =========================================== detect_hardware_acceleration
\* Encoders the probe looks for, in the order it looks for them.
Candidates == {"h264_nvenc", "h264_qsv"}

\* Outcomes of subprocess.run for a trial encode.
TrialOutcomes == {"exit 0", "exit 1", "raised"}

\* hw_config after the NVENC trial exited 0, media.py 72-77
\* only the vendor flag is set
nvenc_accepted_flagonly(cfg) == [cfg EXCEPT !.nvidia = TRUE]

nvenc_accepted(cfg) ==
    [cfg EXCEPT !.nvidia = TRUE, !.available = TRUE,
                !.encoder = "h264_nvenc", !.decoder = "h264_cuvid",
                !.hwaccel = "cuda"]

\* hw_config after the QuickSync trial exited 0, media.py 101-106
qsv_accepted(cfg) ==
    [cfg EXCEPT !.intel = TRUE, !.available = TRUE,
                !.encoder = "h264_qsv", !.decoder = "h264_qsv",
                !.hwaccel = "qsv"]

\* condition of the QuickSync block, media.py 85
\* the QuickSync block entered whenever the encoder is listed
qsv_trial_due_listed(cfg, listed) == "h264_qsv" \in listed

qsv_trial_due(cfg, listed) == ~cfg.available /\ "h264_qsv" \in listed

\* The probe is called once, when app.utils.media is imported (media.py 126).
InitProbe ==
    /\ FilterIdle
    /\ WorkspaceIdle
    /\ hpc = "which"
    /\ ffmpeg_found = "unknown"
    /\ encoders_listed = {}
    /\ hw_config = InitialHwConfig
    /\ trials = <<>>
    /\ probe_caught = FALSE
    /\ cmds = {}
    /\ MultiVoiceIdle
    /\ pc = "library"
    /\ image_count = 0
    /\ scripts = <<>>
    /\ audio_duration = 0
    /\ segment_durations = <<>>
    /\ motion_video_paths = <<>>
    /\ render_i = 0
    /\ render_calls = <<>>
    /\ encoder_runs = <<>>
    /\ exhausted = 0
    /\ combined_video_path = OutputPath
    /\ uploaded = NoFile
    /\ req_error = "none"
    /\ cpc = "idle"
    /\ clips = <<>>
    /\ video_paths = <<>>
    /\ transition_duration = 1000
    /\ durations = <<>>
    /\ chunk_i = 0
    /\ chunk_results = <<>>
    /\ args = NoArgs
    /\ ctx = "none"
    /\ graph = <<>>
    /\ pair_i = 0
    /\ current_video = OutputPath
    /\ fs = [p \in WrittenPaths |-> NoFile]
    /\ stageLog = <<>>
    /\ levelLog = <<>>
    /\ concat_rc = -1
    /\ error = "none"

\* An exception inside the try block: the handler at media.py 119-120 logs
\* it and line 122 returns hw_config as it is.
ProbeCatches ==
    /\ probe_caught' = TRUE
    /\ hpc' = "done"

\* shutil.which, media.py 46-48
ProbeWhich ==
    /\ UNCHANGED <<cvars, rvars, mvars, fvars, wvars>>
    /\ hpc = "which"
    /\ \E outcome \in {"found", "missing", "raised"} :
        /\ ffmpeg_found' = outcome
        /\ IF outcome = "raised" THEN ProbeCatches
           ELSE /\ hpc' = IF outcome = "found" THEN "encoders" ELSE "done"
                /\ UNCHANGED probe_caught
    /\ UNCHANGED <<encoders_listed, hw_config, trials, cmds>>

\* ffmpeg -encoders, media.py 51-53
ProbeEncoders ==
    /\ UNCHANGED <<cvars, rvars, mvars, fvars, wvars>>
    /\ hpc = "encoders"
    /\ \/ /\ ProbeCatches
          /\ UNCHANGED encoders_listed
       \/ /\ encoders_listed' \in SUBSET Candidates
          /\ hpc' = "nvenc"
          /\ UNCHANGED probe_caught
    /\ UNCHANGED <<ffmpeg_found, hw_config, trials, cmds>>

\* the NVENC block, media.py 56-82
ProbeNvenc ==
    /\ UNCHANGED <<cvars, rvars, mvars, fvars, wvars>>
    /\ hpc = "nvenc"
    /\ IF "h264_nvenc" \in encoders_listed
       THEN \E outcome \in TrialOutcomes :
               /\ trials' = Append(trials, [encoder |-> "h264_nvenc",
                                            outcome |-> outcome])
               /\ hw_config' = IF outcome = "exit 0"
                               THEN nvenc_accepted(hw_config) ELSE hw_config
               /\ IF outcome = "raised" THEN ProbeCatches
                  ELSE hpc' = "qsv" /\ UNCHANGED probe_caught
       ELSE /\ hpc' = "qsv"
            /\ UNCHANGED <<trials, hw_config, probe_caught>>
    /\ UNCHANGED <<ffmpeg_found, encoders_listed, cmds>>

\* the QuickSync block and the return, media.py 85-122
ProbeQsv ==
    /\ UNCHANGED <<cvars, rvars, mvars, fvars, wvars>>
    /\ hpc = "qsv"
    /\ IF qsv_trial_due(hw_config, encoders_listed)
       THEN \E outcome \in TrialOutcomes :
               /\ trials' = Append(trials, [encoder |-> "h264_qsv",
                                            outcome |-> outcome])
               /\ hw_config' = IF outcome = "exit 0"
                               THEN qsv_accepted(hw_config) ELSE hw_config
               /\ IF outcome = "raised" THEN ProbeCatches
                  ELSE hpc' = "done" /\ UNCHANGED probe_caught
       ELSE /\ hpc' = "done"
            /\ UNCHANGED <<trials, hw_config, probe_caught>>
    /\ UNCHANGED <<ffmpeg_found, encoders_listed, cmds>>

\* --------------------------------------------------- encoder commands
\* HW_ACCEL = detect_hardware_acceleration(), media.py 126
HW_ACCEL == hw_config

\* A command is its argument list; paths, filter strings and durations are
\* the tokens "input", "audio", "image", "output", "filter" and "duration".
\* create_motion_video_from_image, motion.py 334-358
motion_cmd ==
    <<"ffmpeg", "-y", "-loop", "1", "-i", "image", "-vf", "filter",
      "-c:v", "libx264", "-crf", "23", "-preset", "medium",
      "-movflags", "+faststart", "-t", "duration", "-pix_fmt", "yuv420p",
      "output">>

\* _combine_videos_with_transitions over n inputs, video.py 341-405
chained_cmd(hw, n) ==
    <<"ffmpeg", "-y">>
      \o (IF hw.available THEN <<"-hwaccel", hw.hwaccel>> ELSE <<>>)
      \o Flatten([j \in 1..n |-> <<"-i", "input">>])
      \o <<"-filter_complex", "filter", "-map", "[v]", "-map", "[a]">>
      \o (IF hw.available
          THEN <<"-c:v", hw.encoder>>
                 \o (IF hw.nvidia THEN <<"-preset", "p4", "-b:v", "6M">>
                     ELSE IF hw.intel THEN <<"-preset", "medium", "-b:v", "6M">>
                     ELSE <<>>)
          ELSE <<"-c:v", "libx264", "-crf", "22", "-preset", "medium">>)
      \o <<"-c:a", "aac", "-b:a", "192k", "-movflags", "+faststart", "output">>

\* _combine_videos_simple_transitions, video.py 464-483
\* the encoder of the descriptor used whether available or not
pairwise_cmd_unguarded(hw) ==
    <<"ffmpeg", "-y", "-i", "input", "-i", "input", "-filter_complex", "filter">>
      \o <<"-c:v", hw.encoder>>
      \o <<"-c:a", "aac", "-b:a", "192k", "output">>

pairwise_cmd(hw) ==
    <<"ffmpeg", "-y", "-i", "input", "-i", "input", "-filter_complex", "filter">>
      \o (IF hw.available THEN <<"-c:v", hw.encoder>>
          ELSE <<"-c:v", "libx264", "-preset", "fast", "-crf", "23">>)
      \o <<"-c:a", "aac", "-b:a", "192k", "output">>

\* audio_cmd of combine_videos_with_audio, media.py 241-312
audio_cmd(hw) ==
    <<"ffmpeg", "-y">>
      \o (IF hw.available THEN <<"-hwaccel", hw.hwaccel>> ELSE <<>>)
      \o <<"-i", "input", "-i", "audio">>
      \o (IF hw.available
          THEN <<"-c:v", hw.encoder, "-preset", "medium", "-c:a", "aac",
                 "-b:a", "192k", "-shortest">>
                 \o (IF hw.nvidia THEN <<"-b:v", "5M">>
                     ELSE IF hw.intel THEN <<"-b:v", "5M">>
                     ELSE <<>>)
          ELSE <<"-c:v", "copy", "-c:a", "aac", "-b:a", "192k", "-shortest">>)
      \o <<"output">>

\* the audio track mux of combine_videos_with_audio_and_transitions,
\* video.py 554-572
track_mux_cmd ==
    <<"ffmpeg", "-y", "-i", "input", "-i", "audio", "-map", "0:v",
      "-map", "1:a", "-c:v", "copy", "-c:a", "aac", "-b:a", "192k",
      "-shortest", "output">>

\* A request builds a clip renderer command, motion.py 334-358.
BuildMotionCmd ==
    /\ UNCHANGED <<cvars, rvars, mvars, fvars, wvars>>
    /\ hpc = "done"
    /\ cmds' = cmds \cup {[stage |-> "render", cmd |-> motion_cmd]}
    /\ UNCHANGED <<hpc, ffmpeg_found, encoders_listed, hw_config, trials,
                   probe_caught>>

\* A request builds a chained combine command, video.py 341-405.
BuildChainedCmd ==
    /\ UNCHANGED <<cvars, rvars, mvars, fvars, wvars>>
    /\ hpc = "done"
    /\ \E n \in 2..MAX_VIDEOS_PER_CHUNK :
        cmds' = cmds \cup {[stage |-> "chained", cmd |-> chained_cmd(HW_ACCEL, n)]}
    /\ UNCHANGED <<hpc, ffmpeg_found, encoders_listed, hw_config, trials,
                   probe_caught>>

\* A request builds a pairwise combine command, video.py 464-483.
BuildPairwiseCmd ==
    /\ UNCHANGED <<cvars, rvars, mvars, fvars, wvars>>
    /\ hpc = "done"
    /\ cmds' = cmds \cup {[stage |-> "pairwise", cmd |-> pairwise_cmd(HW_ACCEL)]}
    /\ UNCHANGED <<hpc, ffmpeg_found, encoders_listed, hw_config, trials,
                   probe_caught>>

\* A request builds an audio mux command, media.py 241-312 or video.py 554-572.
BuildMuxCmd ==
    /\ UNCHANGED <<cvars, rvars, mvars, fvars, wvars>>
    /\ hpc = "done"
    /\ \E c \in {audio_cmd(HW_ACCEL), track_mux_cmd} :
        cmds' = cmds \cup {[stage |-> "mux", cmd |-> c]}
    /\ UNCHANGED <<hpc, ffmpeg_found, encoders_listed, hw_config, trials,
                   probe_caught>>

NextProbe ==
    \/ ProbeWhich
    \/ ProbeEncoders
    \/ ProbeNvenc
    \/ ProbeQsv
    \/ BuildMotionCmd
    \/ BuildChainedCmd
    \/ BuildPairwiseCmd
    \/ BuildMuxCmd

SpecProbe == InitProbe /\ [][NextProbe]_vars

\* ================================================= create_multi_voice_video
\* True lengths of the narration files, and how the duration returned by
\* create_audio_from_script_openai was obtained.
NarrationLengths == {4000, 4700, 6000}
DurationSources == {"measured", "unreadable", "no_metadata"}

\* get_audio_duration's answer for a file mutagen cannot read, media.py 177-180
UnreadableAudioDuration == 180000
\* duration of a cached narration whose metadata has none, audio.py 62
CachedDefaultDuration == 30000

\* The duration create_audio_from_script_openai returns, in whole seconds:
\* int(get_audio_duration(filepath)) for new audio (audio.py 91), the same
\* number stored as metadata for cached audio (audio.py 62, 100-107).
reported_duration(len, how) ==
    IF how = "unreadable" THEN UnreadableAudioDuration
    ELSE IF how = "no_metadata" THEN CachedDefaultDuration
    ELSE (len \div 1000) * 1000

\* duration passed to create_motion_video_from_image for a narration of
\* reported duration d, temp.py 250-256
narration_clip_duration(d) == d

\* The segment ffmpeg writes from a clip and a narration file with
\* -c:v copy -c:a aac -shortest (temp.py 267-282): both streams end where the
\* shorter input ends.
segment_mux(clip, audio_len) ==
    [st |-> "complete", content |-> clip.content,
     video |-> Min(clip.dur, audio_len), audio |-> Min(clip.dur, audio_len)]

\* condition of the validation, temp.py 217-219
\* no request counts as mismatched
mv_count_mismatch_never(c) == FALSE

mv_count_mismatch(c) == c.images # c.scripts \/ c.scripts # c.voices

\* The request ends with the exception e (temp.py 347-349).
MvFails(e) ==
    /\ mpc' = "failed"
    /\ mv_error' = e

\* A request to create_multi_voice_video.
InitMultiVoice ==
    /\ FilterIdle
    /\ WorkspaceIdle
    /\ mpc = "start"
    /\ counts \in [images : 0..MaxSegments, scripts : 0..MaxSegments,
                   voices : 0..MaxSegments]
    /\ audio_files = <<>>
    /\ audio_durations = <<>>
    /\ mv_clips = <<>>
    /\ combined_segments = <<>>
    /\ mv_i = 0
    /\ mv_ops = NoOps
    /\ mv_final = NoFile
    /\ mv_uploaded = NoFile
    /\ mv_error = "none"
    /\ ProbeIdle
    /\ pc = "library"
    /\ image_count = 0
    /\ scripts = <<>>
    /\ audio_duration = 0
    /\ segment_durations = <<>>
    /\ motion_video_paths = <<>>
    /\ render_i = 0
    /\ render_calls = <<>>
    /\ encoder_runs = <<>>
    /\ exhausted = 0
    /\ combined_video_path = OutputPath
    /\ uploaded = NoFile
    /\ req_error = "none"
    /\ cpc = "idle"
    /\ clips = <<>>
    /\ video_paths = <<>>
    /\ transition_duration = 1000
    /\ durations = <<>>
    /\ chunk_i = 0
    /\ chunk_results = <<>>
    /\ args = NoArgs
    /\ ctx = "none"
    /\ graph = <<>>
    /\ pair_i = 0
    /\ current_video = OutputPath
    /\ fs = [p \in WrittenPaths |-> NoFile]
    /\ stageLog = <<>>
    /\ levelLog = <<>>
    /\ concat_rc = -1
    /\ error = "none"

\* validation, temp.py 217-226.  With no segment at all the three loops of
\* steps 1-3 have no iteration and step 4 follows.
MvValidate ==
    /\ UNCHANGED <<cvars, rvars, hvars, fvars, wvars>>
    /\ mpc = "start"
    /\ IF mv_count_mismatch(counts)
       THEN MvFails("ValueError") /\ UNCHANGED mv_i
       ELSE /\ mpc' = IF counts.scripts = 0 THEN "concat" ELSE "synth"
            /\ mv_i' = 1
            /\ UNCHANGED mv_error
    /\ UNCHANGED <<counts, audio_files, audio_durations, mv_clips,
                   combined_segments, mv_ops, mv_final, mv_uploaded>>

\* one iteration of step 1, temp.py 235-246.  The synthesis may raise
\* (audio.py 110-114).  download_file is given the file path
\* temp_dir/audio_i.mp3 as its output directory: after the GET, which may
\* raise, media.py 162-166 opens temp_dir/audio_i.mp3/<uuid>.mp3 for writing
\* in a directory that does not exist, and raises FileNotFoundError.
MvSynthesize ==
    /\ UNCHANGED <<cvars, rvars, hvars, fvars, wvars>>
    /\ mpc = "synth"
    /\ mv_i <= counts.scripts
    /\ \E e \in {"HTTPException", "HTTPStatusError", "FileNotFoundError"} :
        /\ mv_ops' = [mv_ops EXCEPT
                        !.synth = @ + 1,
                        !.download = IF e = "HTTPException" THEN @ ELSE @ + 1]
        /\ MvFails(e)
    /\ UNCHANGED <<counts, audio_files, audio_durations, mv_clips,
                   combined_segments, mv_i, mv_final, mv_uploaded>>

\* one iteration of step 2, temp.py 250-257, with
\* create_motion_video_from_image, motion.py 286-370; no retry
MvRender ==
    /\ UNCHANGED <<cvars, rvars, hvars, fvars, wvars>>
    /\ mpc = "render"
    /\ mv_i <= counts.images
    /\ \E outcome \in {"ok", "download failed", "encoder failed"} :
        /\ mv_ops' = [mv_ops EXCEPT
                        !.render = IF outcome = "download failed" THEN @ ELSE @ + 1]
        /\ IF outcome = "ok"
           THEN /\ mv_clips' = Append(mv_clips,
                     RenderedClip(mv_i, narration_clip_duration(audio_durations[mv_i])))
                /\ mpc' = IF mv_i = counts.images THEN "mux" ELSE "render"
                /\ mv_i' = IF mv_i = counts.images THEN 1 ELSE mv_i + 1
                /\ UNCHANGED mv_error
           ELSE /\ MvFails("Failed to create motion video")
                /\ UNCHANGED <<mv_clips, mv_i>>
    /\ UNCHANGED <<counts, audio_files, audio_durations, combined_segments,
                   mv_final, mv_uploaded>>

\* one iteration of step 3, temp.py 261-295
MvMux ==
    /\ UNCHANGED <<cvars, rvars, hvars, fvars, wvars>>
    /\ mpc = "mux"
    /\ mv_i <= Len(mv_clips)
    /\ mv_ops' = [mv_ops EXCEPT !.mux = @ + 1]
    /\ \E rc \in {0, 1} :
        IF rc = 0
        THEN /\ combined_segments' =
                   Append(combined_segments,
                          segment_mux(mv_clips[mv_i], audio_files[mv_i]))
             /\ mpc' = IF mv_i = Len(mv_clips) THEN "concat" ELSE "mux"
             /\ mv_i' = mv_i + 1
             /\ UNCHANGED mv_error
        ELSE /\ MvFails("Failed to create segment")
             /\ UNCHANGED <<combined_segments, mv_i>>
    /\ UNCHANGED <<counts, audio_files, audio_durations, mv_clips, mv_final,
                   mv_uploaded>>

\* steps 4 and 5, temp.py 297-334
MvConcat ==
    /\ UNCHANGED <<cvars, rvars, hvars, fvars, wvars>>
    /\ mpc = "concat"
    /\ mv_ops' = [mv_ops EXCEPT !.concat = @ + 1]
    /\ \E rc \in {0, 1} :
        IF rc = 0
        THEN /\ mv_final' =
                   [st |-> "complete",
                    content |-> Flatten([j \in 1..Len(combined_segments) |->
                                            combined_segments[j].content]),
                    dur |-> SumSeq([j \in 1..Len(combined_segments) |->
                                       combined_segments[j].video])]
             /\ mpc' = "upload"
             /\ UNCHANGED mv_error
        ELSE /\ mv_final' = PartialFile
             /\ MvFails("Failed to create final video")
    /\ UNCHANGED <<counts, audio_files, audio_durations, mv_clips,
                   combined_segments, mv_i, mv_uploaded>>

\* the upload, temp.py 336-345
MvUpload ==
    /\ UNCHANGED <<cvars, rvars, hvars, fvars, wvars>>
    /\ mpc = "upload"
    /\ \E ok \in BOOLEAN :
        IF ok
        THEN /\ mv_uploaded' = mv_final
             /\ mpc' = "returned"
             /\ UNCHANGED mv_error
        ELSE /\ MvFails("Upload failed")
             /\ UNCHANGED mv_uploaded
    /\ UNCHANGED <<counts, audio_files, audio_durations, mv_clips,
                   combined_segments, mv_i, mv_ops, mv_final>>

\* A request arrives at create_simple_video or at create_multi_voice_video.
InitRequests == InitRequest \/ InitMultiVoice

NextRequests ==
    \/ Validate
    \/ DownloadAndAllocate
    \/ RenderWithScript
    \/ RenderPlain
    \/ RetryStable
    \/ StartCombine
    \/ CombineEntry
    \/ ChunkStart
    \/ ChunksCombine
    \/ ChainedOk
    \/ ChainedFail
    \/ PairwiseStepOk
    \/ PairwiseStepFail
    \/ PairwiseFinish
    \/ Concat
    \/ CombineReturned
    \/ CombineRaised
    \/ Mux
    \/ Upload
    \/ MvValidate
    \/ MvSynthesize
    \/ MvConcat
    \/ MvUpload

SpecRequests == InitRequests /\ [][NextRequests]_vars

\* ------------------------- steps 2 to 5 of create_multi_voice_video alone
\* Step 1 as written never completes an iteration (see MvSynthesize).  Steps
\* 2 to 5, temp.py 248-345, are entered here with audio_paths and
\* audio_durations as step 1 is written to leave them: one narration file per
\* segment and the duration create_audio_from_script_openai returned for it.
InitSegments ==
    /\ FilterIdle
    /\ WorkspaceIdle
    /\ mpc = "render"
    /\ \E n \in 1..MaxSegments :
        /\ counts = [images |-> n, scripts |-> n, voices |-> n]
        /\ audio_files \in [1..n -> NarrationLengths]
        /\ \E how \in [1..n -> DurationSources] :
              audio_durations =
                  [i \in 1..n |-> reported_duration(audio_files[i], how[i])]
        /\ mv_ops = [NoOps EXCEPT !.synth = n, !.download = n]
    /\ mv_clips = <<>>
    /\ combined_segments = <<>>
    /\ mv_i = 1
    /\ mv_final = NoFile
    /\ mv_uploaded = NoFile
    /\ mv_error = "none"
    /\ ProbeIdle
    /\ pc = "library"
    /\ image_count = 0
    /\ scripts = <<>>
    /\ audio_duration = 0
    /\ segment_durations = <<>>
    /\ motion_video_paths = <<>>
    /\ render_i = 0
    /\ render_calls = <<>>
    /\ encoder_runs = <<>>
    /\ exhausted = 0
    /\ combined_video_path = OutputPath
    /\ uploaded = NoFile
    /\ req_error = "none"
    /\ cpc = "idle"
    /\ clips = <<>>
    /\ video_paths = <<>>
    /\ transition_duration = 1000
    /\ durations = <<>>
    /\ chunk_i = 0
    /\ chunk_results = <<>>
    /\ args = NoArgs
    /\ ctx = "none"
    /\ graph = <<>>
    /\ pair_i = 0
    /\ current_video = OutputPath
    /\ fs = [p \in WrittenPaths |-> NoFile]
    /\ stageLog = <<>>
    /\ levelLog = <<>>
    /\ concat_rc = -1
    /\ error = "none"

NextSegments ==
    \/ MvRender
    \/ MvMux
    \/ MvConcat
    \/ MvUpload

SpecSegments == InitSegments /\ [][NextSegments]_vars

\* =================================================== motion filter lookup
\* get_motion_filter(motion_type, total_frames, fps) exists twice, in
\* services/motion.py (241-283, the one create_motion_video_from_image
\* calls) and in utils/video_filters.py (350-394).  Both build filter_map
\* eagerly, so every helper runs on every call, the ones drawing random
\* numbers included.  A zoompan filter string is kept as the fields that
\* tell two strings apart: the helper's table entry, the random draw that
\* went into it (0 if the helper draws none), d= and fps=.
MotionTypes ==
    {"zoom_in_center", "zoom_out_center", "pan_left_to_right",
     "pan_right_to_left", "pan_top_to_bottom", "pan_bottom_to_top",
     "zoom_and_pan_random", "slow_drift", "stable"}

EnhancedMotionTypes == {"zoom_rotate", "pulse_zoom", "bounce", "ken_burns_slow"}

\* names in neither table; "" is falsy as a key but still a string
UnknownMotionTypes == {"spin", ""}

FrameCounts == {0, 64, 150}
FrameRates == {24, 30, 60}
RandomDraws == {1, 2}

zoompan(entry, draw, frames, rate) ==
    [entry |-> entry, draw |-> draw, d |-> frames, fps |-> rate]

\* filter_map of services/motion.py, 253-269; get_zoom_and_pan_random_filter
\* (163-166, 265) and get_slow_drift_filter (204-205) draw random numbers.
filter_map(frames, rate, rnd) ==
    [e \in MotionTypes |->
        zoompan(e, IF e \in {"zoom_and_pan_random", "slow_drift"} THEN rnd ELSE 0,
                frames, rate)]

\* filter_map of utils/video_filters.py, 362-383;
\* get_zoom_and_pan_random_filter (132-135, 374) and
\* get_ken_burns_slow_filter (307-326) draw random numbers.
video_filters_filter_map(frames, rate, rnd) ==
    [e \in MotionTypes \cup EnhancedMotionTypes |->
        zoompan(e, IF e \in {"zoom_and_pan_random", "ken_burns_slow"} THEN rnd ELSE 0,
                frames, rate)]

\* base_filter + ",tblend=all_mode=average" when fps > 30
with_post_processing(base_filter, rate) ==
    [raised |-> "none", base |-> base_filter, tblend |-> rate > 30]

\* the table indexed with filter_map[motion_type]
get_motion_filter_keyerror(mt, frames, rate, rnd) ==
    IF mt \in DOMAIN filter_map(frames, rate, rnd)
    THEN with_post_processing(filter_map(frames, rate, rnd)[mt], rate)
    ELSE [raised |-> "KeyError", base |-> <<>>, tblend |-> FALSE]

\* services/motion.py 271-283: filter_map.get(motion_type), "stable" when
\* that gave nothing
get_motion_filter(mt, frames, rate, rnd) ==
    with_post_processing(
        IF mt \in DOMAIN filter_map(frames, rate, rnd)
        THEN filter_map(frames, rate, rnd)[mt]
        ELSE filter_map(frames, rate, rnd)["stable"],
        rate)

\* utils/video_filters.py 385-394
video_filters_get_motion_filter(mt, frames, rate, rnd) ==
    with_post_processing(
        IF mt \in DOMAIN video_filters_filter_map(frames, rate, rnd)
        THEN video_filters_filter_map(frames, rate, rnd)[mt]
        ELSE video_filters_filter_map(frames, rate, rnd)["stable"],
        rate)

\* Nothing of the compositor or of create_simple_video is part of the
\* behaviour.
PipelineIdle ==
    /\ pc = "library"
    /\ image_count = 0
    /\ scripts = <<>>
    /\ audio_duration = 0
    /\ segment_durations = <<>>
    /\ motion_video_paths = <<>>
    /\ render_i = 0
    /\ render_calls = <<>>
    /\ encoder_runs = <<>>
    /\ exhausted = 0
    /\ combined_video_path = OutputPath
    /\ uploaded = NoFile
    /\ req_error = "none"
    /\ cpc = "idle"
    /\ clips = <<>>
    /\ video_paths = <<>>
    /\ transition_duration = 1000
    /\ durations = <<>>
    /\ chunk_i = 0
    /\ chunk_results = <<>>
    /\ args = NoArgs
    /\ ctx = "none"
    /\ graph = <<>>
    /\ pair_i = 0
    /\ current_video = OutputPath
    /\ fs = [p \in WrittenPaths |-> NoFile]
    /\ stageLog = <<>>
    /\ levelLog = <<>>
    /\ concat_rc = -1
    /\ error = "none"

\* one call of each get_motion_filter with the same arguments
InitFilter ==
    /\ PipelineIdle
    /\ ProbeIdle
    /\ MultiVoiceIdle
    /\ WorkspaceIdle
    /\ fpc = "call"
    /\ motion_type \in MotionTypes \cup EnhancedMotionTypes \cup UnknownMotionTypes
    /\ filter_frames \in FrameCounts
    /\ filter_fps \in FrameRates
    /\ filter_result = <<>>

GetMotionFilter ==
    /\ UNCHANGED <<cvars, rvars, hvars, mvars, wvars>>
    /\ fpc = "call"
    /\ \E rnd \in RandomDraws :
        filter_result' =
            [services |-> get_motion_filter(motion_type, filter_frames,
                                            filter_fps, rnd),
             utils |-> video_filters_get_motion_filter(motion_type, filter_frames,
                                                       filter_fps, rnd)]
    /\ fpc' = "done"
    /\ UNCHANGED <<motion_type, filter_frames, filter_fps>>

NextFilter == GetMotionFilter

SpecFilter == InitFilter /\ [][NextFilter]_vars

\* ========================================== temporary files, concurrently
\* Operations run concurrently on one server: each is create_simple_video
\* without scripts (video.py 27-203) or combine_motion_videos (motion.py
\* 373-423).  Only where their intermediate files go is kept: a path is a
\* directory and a file name, and uuid4() gives a value no other call gave.
\* create_simple_slideshow (temp.py 32-77) names image_<i>, audio and
\* images.txt directly in TEMP_DIR, but every download_file call in it gets a
\* file path as output directory and raises at media.py 165 before a file is
\* written, so it touches no path.
Operations == {1, 2}
OperationKinds == {"create_simple_video", "combine_motion_videos"}
ImagesPerRequest == 2
CombineLevels == {"chained", "pairwise", "concat"}

Uuid(n) == <<"uuid4", n>>
Fixed(name) == <<name, 0>>
PathIn(dir, name) == [dir |-> dir, name |-> name]

\* os.path.join(settings.OUTPUT_DIR, "temp"), motion.py 298 and 383
OutputTempDir == Fixed("OUTPUT_DIR/temp")
\* MOTION_VIDEOS_DIR, motion.py 11
MotionVideosDir == Fixed("OUTPUT_DIR/motion_videos")
\* os.path.join(TEMP_DIR, uuid.uuid4().hex), video.py 46, 529 and media.py 195
FreshTempDir(n) == <<"TEMP_DIR", n>>

Rendered(r) == Cardinality({p \in touched[r] : p.dir = MotionVideosDir})

InitWorkspace ==
    /\ PipelineIdle
    /\ ProbeIdle
    /\ MultiVoiceIdle
    /\ FilterIdle
    /\ wkind \in [Operations -> OperationKinds]
    /\ wpc = [r \in Operations |-> "start"]
    /\ touched = [r \in Operations |-> {}]
    /\ next_uuid = 0

\* video.py 45-49: a directory of its own, the audio track under the name
\* download_file gives it (media.py 163-164)
WsDownloadAudio(r) ==
    /\ wkind[r] = "create_simple_video"
    /\ wpc[r] = "start"
    /\ touched' = [touched EXCEPT ![r] =
                      @ \cup {PathIn(FreshTempDir(next_uuid + 1), Uuid(next_uuid + 2))}]
    /\ next_uuid' = next_uuid + 2
    /\ wpc' = [wpc EXCEPT ![r] = "render"]
    /\ UNCHANGED wkind

\* one create_motion_video_from_image call, motion.py 298-306: the image goes
\* to OUTPUT_DIR/temp (download_image, motion.py 23-24), the clip to
\* MOTION_VIDEOS_DIR, both under uuid names
WsRenderClip(r) ==
    /\ wkind[r] = "create_simple_video"
    /\ wpc[r] = "render"
    /\ Rendered(r) < ImagesPerRequest
    /\ touched' = [touched EXCEPT ![r] =
                      @ \cup {PathIn(OutputTempDir, Uuid(next_uuid + 1)),
                              PathIn(MotionVideosDir, Uuid(next_uuid + 2))}]
    /\ next_uuid' = next_uuid + 2
    /\ UNCHANGED <<wpc, wkind>>

\* combine_videos_with_audio_and_transitions, video.py 529-545: a second
\* directory of its own holds combined_with_transitions.mp4; the pairwise
\* fallback writes temp_transition_<i>.mp4 next to it (video.py 447-455), and
\* the concat fallback makes a third directory for concat_list.txt and
\* combined_<uuid>.mp4 (media.py 195-205)
WsCombine(r) ==
    /\ wkind[r] = "create_simple_video"
    /\ wpc[r] = "render"
    /\ Rendered(r) = ImagesPerRequest
    /\ \E level \in CombineLevels :
        LET dir == FreshTempDir(next_uuid + 1)
            chained == {PathIn(dir, Fixed("combined_with_transitions.mp4"))}
            pairwise == {PathIn(dir, Fixed("temp_transition_1.mp4"))}
            concat == {PathIn(FreshTempDir(next_uuid + 2), Fixed("concat_list.txt")),
                       PathIn(FreshTempDir(next_uuid + 2), Uuid(next_uuid + 3))}
        IN /\ touched' = [touched EXCEPT ![r] =
                 @ \cup chained
                   \cup (IF level # "chained" THEN pairwise ELSE {})
                   \cup (IF level = "concat" THEN concat ELSE {})]
           /\ next_uuid' = next_uuid + (IF level = "concat" THEN 3 ELSE 1)
    /\ wpc' = [wpc EXCEPT ![r] = "done"]
    /\ UNCHANGED wkind

\* combine_motion_videos, motion.py 383-394: the manifest is
\* OUTPUT_DIR/temp/videos_to_concat.txt; the uuid names the final video
WsCombineMotionVideos(r) ==
    /\ wkind[r] = "combine_motion_videos"
    /\ wpc[r] = "start"
    /\ touched' = [touched EXCEPT ![r] =
                      @ \cup {PathIn(OutputTempDir, Fixed("videos_to_concat.txt"))}]
    /\ next_uuid' = next_uuid + 1
    /\ wpc' = [wpc EXCEPT ![r] = "done"]
    /\ UNCHANGED wkind

DownloadAudioStep ==
    /\ UNCHANGED <<cvars, rvars, hvars, mvars, fvars>>
    /\ \E r \in Operations : WsDownloadAudio(r)

RenderClipStep ==
    /\ UNCHANGED <<cvars, rvars, hvars, mvars, fvars>>
    /\ \E r \in Operations : WsRenderClip(r)

CombineStep ==
    /\ UNCHANGED <<cvars, rvars, hvars, mvars, fvars>>
    /\ \E r \in Operations : WsCombine(r)

CombineMotionVideosStep ==
    /\ UNCHANGED <<cvars, rvars, hvars, mvars, fvars>>
    /\ \E r \in Operations : WsCombineMotionVideos(r)

NextWorkspace ==
    \/ DownloadAudioStep
    \/ RenderClipStep
    \/ CombineStep
    \/ CombineMotionVideosStep

SpecWorkspace == InitWorkspace /\ [][NextWorkspace]_vars

\* ================================================================ claims
IsPrefix(s, t) == Len(s) <= Len(t) /\ SubSeq(t, 1, Len(s)) = s

InputCount == Len(video_paths)
InputContent == Flatten([j \in 1..InputCount |-> FileAt(video_paths[j]).content])
InputSliceContent(lo, hi) ==
    Flatten([k \in 1..(hi - lo + 1) |-> FileAt(video_paths[lo + k - 1]).content])
AllChainedOk == \A j \in 1..Len(levelLog) : levelLog[j].rc = 0

\* graph is the filter graph built from args.durs except between the entry
\* of a chained combine and its encoder invocation.
GraphIsCurrent == cpc # "chained"

\* C1: in the chained combine every crossfade duration is at most half of the
\* shorter of the two clips it joins.
C1_SafeTransitionAtMostHalfShorterClip ==
    GraphIsCurrent =>
        \A j \in 1..Len(graph) :
            2 * graph[j].xfade_duration <= Min(args.durs[j], args.durs[j + 1])

\* C2: when every encoder invocation succeeds, the combined output lasts
\* sum(durations) minus the sum over pairs i of
\* min(transitionDuration, 0.5 * duration[i-1], hardCap), on the single-graph
\* path and on the chunked path.
C2_OutputDurationIsFlatFormula ==
    (cpc = "returned" /\ AllChainedOk /\ fs[OutputPath].st = "complete") =>
        fs[OutputPath].dur =
            SumSeq(durations)
              - SumSeq([j \in 1..(InputCount - 1) |->
                          Min3(transition_duration, durations[j] \div 2, HardCap)])

\* C3: the output of a combine shows the clips in input order, which is what
\* one filter graph over the flat list gives; every chunk output shows the
\* contiguous slice of the input it was cut from, and chunk outputs are kept
\* in chunk order.
C3_ClipOrderPreserved ==
    /\ cpc = "returned" =>
          /\ fs[OutputPath].st = "complete"
          /\ fs[OutputPath].content = InputContent
          /\ fs[OutputPath].content =
                ChainedOutput([j \in 1..InputCount |-> FileAt(video_paths[j])],
                              FilterGraph(durations, transition_duration)).content
    /\ cpc \notin {"idle", "call"} =>
          \A j \in 1..Len(chunk_results) :
              /\ chunk_results[j] = ChunkPath(MAX_VIDEOS_PER_CHUNK * (j - 1))
              /\ FileAt(chunk_results[j]).content =
                    InputSliceContent(MAX_VIDEOS_PER_CHUNK * (j - 1) + 1,
                                      Min(MAX_VIDEOS_PER_CHUNK * j, InputCount))

C3_Witness ==
    /\ cpc = "returned"
    /\ InputCount = 9
    /\ Len(chunk_results) = 3
    /\ fs[OutputPath].content = <<1, 2, 3, 4, 5, 6, 7, 8, 9>>
    /\ \E j \in 1..Len(levelLog) : levelLog[j].rc = 1

\* C4: every chained filter-graph encoder invocation, the one over the chunk
\* outputs included, takes at most MAX_VIDEOS_PER_CHUNK input files.
C4_ChainedInputsAtMostChunkSize ==
    \A j \in 1..Len(levelLog) : levelLog[j].inputs <= MAX_VIDEOS_PER_CHUNK

\* C5: more than MAX_VIDEOS_PER_CHUNK clips are combined as ceil(n / MAX)
\* leaf chunks, all of MAX clips except possibly the last, followed by one
\* combine over the chunk outputs; 9 clips give chunks of 4, 4 and 1 and then
\* one combine of 3.
NumChunks(n) == (n + MAX_VIDEOS_PER_CHUNK - 1) \div MAX_VIDEOS_PER_CHUNK

ExpectedCombines(n) ==
    [j \in 1..(NumChunks(n) + 1) |->
        IF j < NumChunks(n) THEN [site |-> "chunk", inputs |-> MAX_VIDEOS_PER_CHUNK]
        ELSE IF j = NumChunks(n)
             THEN [site |-> "chunk",
                   inputs |-> n - MAX_VIDEOS_PER_CHUNK * (NumChunks(n) - 1)]
             ELSE [site |-> "final", inputs |-> NumChunks(n)]]

CombinesDone == [j \in 1..Len(levelLog) |->
                    [site |-> levelLog[j].site, inputs |-> levelLog[j].inputs]]

C5_ChunkPlan ==
    /\ (cpc = "returned" /\ InputCount > MAX_VIDEOS_PER_CHUNK) =>
          CombinesDone = ExpectedCombines(InputCount)
    /\ (cpc = "returned" /\ InputCount = 9) =>
          [j \in 1..Len(levelLog) |-> levelLog[j].inputs] = <<4, 4, 1, 3>>
    /\ InputCount > MAX_VIDEOS_PER_CHUNK =>
          IsPrefix(CombinesDone, ExpectedCombines(InputCount))

C5_Witness ==
    /\ cpc = "returned"
    /\ InputCount = 9
    /\ [j \in 1..Len(levelLog) |-> levelLog[j].inputs] = <<4, 4, 1, 3>>

\* C6: for every input list the stages are entered in the order chained,
\* pairwise, concatenation, each at most once, and an error leaves the
\* compositor only after all three were entered.
C6_StagesInCascadeOrder ==
    /\ IsPrefix(stageLog, <<"chained", "pairwise", "concat">>)
    /\ (cpc = "raised" /\ error # "ValueError") =>
          stageLog = <<"chained", "pairwise", "concat">>

\* C7: when the concat process exits 0 the compositor does not raise.
C7_ConcatExitZeroNeverRaises ==
    concat_rc = 0 => cpc # "raised"

\* C8: the file handed to the upload, and the file behind a returned URL, was
\* written completely by a stage that exited 0 and shows every clip of the
\* request; a file left by a failed encoder is never handed over.
C8_OnlyCompleteFileUploaded ==
    /\ pc = "upload" =>
          /\ fs[FinalPath].st = "complete"
          /\ fs[FinalPath].content = [j \in 1..image_count |-> j]
    /\ pc = "returned" =>
          /\ uploaded.st = "complete"
          /\ uploaded.content = [j \in 1..image_count |-> j]
    /\ pc # "returned" => uploaded = NoFile

\* a URL is returned after the chained encoder left a partial file at the
\* output path
C8_Witness ==
    /\ pc = "returned"
    /\ uploaded.st = "complete"
    /\ image_count >= 2
    /\ \E j \in 1..Len(levelLog) : levelLog[j].site = "single" /\ levelLog[j].rc = 1

\* C9: once the retry of a clip has failed the request has raised, no later
\* clip was rendered, no combine step ran and nothing was uploaded.
C9_ExhaustedRenderAbortsRequest ==
    exhausted # 0 =>
        /\ pc = "failed"
        /\ req_error # "none"
        /\ \A j \in (exhausted + 1)..image_count :
              render_calls[j] = 0 /\ encoder_runs[j] = <<>>
        /\ Len(motion_video_paths) = exhausted - 1
        /\ cpc = "idle"
        /\ levelLog = <<>>
        /\ fs[FinalPath] = NoFile
        /\ uploaded = NoFile

C9_Witness ==
    /\ exhausted # 0
    /\ exhausted < image_count
    /\ encoder_runs[exhausted] # <<>>
    /\ pc = "failed"

\* C10: a clip whose first render failed is rendered exactly once more, with
\* the stable effect, and no clip is attempted more than twice.
StableRuns(i) == Cardinality({j \in 1..Len(encoder_runs[i]) : encoder_runs[i][j] = "stable"})

C10_FailedClipRetriedOnceWithStable ==
    \A i \in 1..image_count :
        /\ render_calls[i] <= 2
        /\ render_calls[i] = 2 => StableRuns(i) = 1

\* C11: when the render loop of create_simple_video has ended without an
\* exception, motion_video_paths has one entry per image, entry i is the clip
\* rendered from image i, and that clip has the duration allocated to
\* segment i.
RenderStageDone ==
    \/ pc = "render" /\ render_i > image_count
    \/ pc \in {"combining", "mux", "upload", "returned"}

C11_OneClipPerImageInOrder ==
    RenderStageDone =>
        /\ Len(motion_video_paths) = image_count
        /\ Len(segment_durations) = image_count
        /\ \A i \in 1..image_count :
              /\ motion_video_paths[i] = ClipPath(i)
              /\ FileAt(motion_video_paths[i]) =
                    [st |-> "complete", content |-> <<i>>,
                     dur |-> segment_durations[i]]

C11_Witness ==
    /\ pc = "render"
    /\ render_i > image_count
    /\ image_count = 3
    /\ Len(motion_video_paths) = 3
    /\ FileAt(motion_video_paths[3]).content = <<3>>

\* C20: three scripts of 10, 20 and 30 characters, an audio track of 60 s and
\* a transition of 1.0 s are allocated 10, 20 and 30 s, and the chained
\* combine of clips of these lengths lasts 58 s.
C20_ExampleAllocation ==
    (/\ scripts = <<10, 20, 30>>
     /\ audio_duration = 60000
     /\ transition_duration = 1000
     /\ segment_durations # <<>>) =>
        /\ segment_durations = <<10000, 20000, 30000>>
        /\ current_duration(segment_durations, transition_duration, 3) = 58000

\* C13: for an empty clip list the combine step raises at once: no chained
\* or pairwise encoder is started, no concat process is started, no file is
\* written, and the error the caller gets is the validation error.
C13_EmptyClipListRejectedAtOnce ==
    (motion_video_paths = <<>> /\ pc # "library") =>
        /\ levelLog = <<>>
        /\ stageLog = <<>>
        /\ concat_rc = -1
        /\ \A p \in WrittenPaths : fs[p] = NoFile
        /\ pc \in {"assemble", "combining", "failed"}
        /\ pc = "failed" => req_error = "ValueError"

\* C14: the probe never raises; when the binary is missing, no trial exited
\* 0 or an exception was caught, the returned descriptor has available =
\* false; and a descriptor with available = false has no encoder, decoder or
\* hwaccel and no vendor flag.
AcceptedTrials == {k \in 1..Len(trials) : trials[k].outcome = "exit 0"}

C14_ProbeNeverRaisesAndUnavailableIsEmpty ==
    /\ hpc \in {"which", "encoders", "nvenc", "qsv", "done"}
    /\ (hpc = "done" /\ (ffmpeg_found = "missing" \/ AcceptedTrials = {}
                          \/ probe_caught)) =>
          hw_config.available = FALSE
    /\ hw_config.available = FALSE => hw_config = InitialHwConfig

\* the QuickSync trial raises after the NVENC trial exited non-zero
C14_Witness ==
    /\ hpc = "done"
    /\ probe_caught
    /\ Len(trials) = 2
    /\ hw_config.available = FALSE

\* C15: the NVENC trial precedes any QuickSync trial; the QuickSync trial
\* runs only if NVENC is not listed or its trial exited non-zero; the first
\* trial that exits 0 is the last trial and decides the descriptor; no
\* candidate is tried twice; never both vendor flags.
C15_TrialOrderAndSingleVendor ==
    /\ \A j, k \in 1..Len(trials) :
          j < k => trials[j].encoder = "h264_nvenc" /\ trials[k].encoder = "h264_qsv"
    /\ \A k \in 1..Len(trials) :
          trials[k].encoder = "h264_qsv" =>
              \/ "h264_nvenc" \notin encoders_listed
              \/ k = 2 /\ trials[1] = [encoder |-> "h264_nvenc", outcome |-> "exit 1"]
    /\ \A k \in AcceptedTrials :
          /\ k = Len(trials)
          /\ hw_config.available
          /\ hw_config.encoder = trials[k].encoder
    /\ hw_config.available => AcceptedTrials # {}
    /\ ~(hw_config.nvidia /\ hw_config.intel)

\* both encoders listed, NVENC accepted, no QuickSync trial
C15_Witness ==
    /\ hpc = "done"
    /\ encoders_listed = Candidates
    /\ trials = <<[encoder |-> "h264_nvenc", outcome |-> "exit 0"]>>
    /\ hw_config.nvidia

\* C16: with available = false no command of the clip renderer, the chained
\* combine, the pairwise combine or the audio mux holds a hardware flag or a
\* hardware encoder name, and its video codec is libx264 or copy.
HardwareTokens ==
    {"-hwaccel", "cuda", "qsv", "h264_nvenc", "h264_qsv", "h264_cuvid"}

ArgsAfter(cmd, flag) == {cmd[k + 1] : k \in {j \in 1..(Len(cmd) - 1) : cmd[j] = flag}}

C16_NoHardwareFlagsWhenUnavailable ==
    HW_ACCEL.available = FALSE =>
        \A c \in cmds :
            /\ \A k \in 1..Len(c.cmd) : c.cmd[k] \notin HardwareTokens
            /\ ArgsAfter(c.cmd, "-c:v") # {}
            /\ ArgsAfter(c.cmd, "-c:v") \subseteq {"libx264", "copy"}

\* every kind of command built after a probe whose only trial failed
C16_Witness ==
    /\ hpc = "done"
    /\ HW_ACCEL.available = FALSE
    /\ trials # <<>>
    /\ {c.stage : c \in cmds} = {"render", "chained", "pairwise", "mux"}

\* C12: a request whose scripts do not match its images in number (for
\* create_multi_voice_video: whose images, scripts and voices are not equal
\* in number) ends with ValueError before anything is downloaded,
\* synthesized, rendered or encoded, and nothing is retried.
C12_CountMismatchFailsBeforeAnyWork ==
    /\ (pc \notin {"start", "library"}
          /\ scripts # <<>> /\ image_count # Len(scripts)) =>
          /\ pc = "failed"
          /\ req_error = "ValueError"
          /\ segment_durations = <<>>
          /\ \A i \in 1..image_count :
                render_calls[i] = 0 /\ encoder_runs[i] = <<>>
          /\ clips = <<>>
          /\ cpc = "idle"
          /\ levelLog = <<>>
          /\ concat_rc = -1
          /\ \A p \in WrittenPaths : fs[p] = NoFile
          /\ uploaded = NoFile
    /\ (mpc \notin {"start", "unused"}
          /\ (counts.images # counts.scripts \/ counts.scripts # counts.voices)) =>
          /\ mpc = "failed"
          /\ mv_error = "ValueError"
          /\ mv_ops = NoOps
          /\ audio_files = <<>>
          /\ mv_clips = <<>>
          /\ combined_segments = <<>>
          /\ mv_final = NoFile
          /\ mv_uploaded = NoFile

\* images and scripts agree, the voices do not
C12_Witness ==
    /\ mpc = "failed"
    /\ mv_error = "ValueError"
    /\ counts = [images |-> 2, scripts |-> 2, voices |-> 1]

C21_ProportionalWithFloor ==
    (scripts # <<>> /\ segment_durations # <<>>) =>
        /\ Len(segment_durations) = Len(scripts)
        /\ \A i \in 1..Len(scripts) :
              /\ segment_durations[i] =
                    Max((audio_duration * scripts[i]) \div SumSeq(scripts), 2000)
              /\ segment_durations[i] >= 2000
        /\ SumSeq(segment_durations) >= 2000 * Len(scripts)

\* C25: a clip rendered for less than 5 s is rendered with the stable, the
\* zoom-in or the zoom-out effect.
C25_ShortClipsUseCalmEffects ==
    \A i \in 1..Len(segment_durations) :
        (i <= image_count /\ segment_durations[i] < 5000) =>
            \A k \in 1..Len(encoder_runs[i]) :
                encoder_runs[i][k] \in {"stable", "zoom_in_center", "zoom_out_center"}

\* C26: in a request with scripts, once the render of a clip has fallen back
\* to the stable call, the request goes on to the step that combines the
\* clips and muxes the external audio track: it does not end before that
\* step was entered.
C26_FallbackTakesExternalAudioPath ==
    (scripts # <<>> /\ \E i \in 1..image_count : render_calls[i] >= 2) =>
        \/ pc # "failed"
        \/ cpc # "idle"
        \/ fs[FinalPath] # NoFile

\* C29: the frame count of every rendered clip is round(duration * fps),
\* halves rounded to the even neighbour.  Only clips whose allocated duration
\* is a whole number of milliseconds are compared.
RoundedFrames(duration, rate) ==
    LET q == (duration * rate) \div 1000
        r == (duration * rate) % 1000
    IN IF r > 500 \/ (r = 500 /\ q % 2 = 1) THEN q + 1 ELSE q

C29_FrameCountIsRounded ==
    \A i \in 1..Len(segment_durations) :
        (/\ i <= image_count
         /\ encoder_runs[i] # <<>>
         /\ segment_durations[i] * image_count =
               adjusted_audio_duration(audio_duration, transition_duration,
                                       image_count)) =>
            total_frames(segment_durations[i]) = RoundedFrames(segment_durations[i], fps)

\* C30: in the chained combine the cumulative duration before a pair is
\* processed is at least the duration of the clip before the transition, so
\* cumulative minus crossfade is at least half of that clip and not negative:
\* max(0, ...) leaves every offset as computed, and the offsets never decrease
\* from one pair to the next.
C30_ClampNeverActsAndOffsetsGrow ==
    GraphIsCurrent =>
        \A j \in 1..Len(graph) :
            LET cur == current_duration(args.durs, transition_duration, j)
            IN /\ cur >= args.durs[j]
               /\ 2 * (cur - graph[j].xfade_duration) >= args.durs[j]
               /\ cur - graph[j].xfade_duration >= 0
               /\ graph[j].xfade_offset = cur - graph[j].xfade_duration
               /\ j > 1 => graph[j - 1].xfade_offset <= graph[j].xfade_offset

C30_Witness ==
    /\ cpc = "returned"
    /\ Len(graph) >= 3
    /\ transition_duration = 3000
    /\ args.durs[1] = 2000
    /\ graph[1].xfade_duration = 1000
    /\ graph[1].xfade_offset = 1000
    /\ graph[2].xfade_offset > graph[1].xfade_offset

\* a loop iteration of the pairwise combine is about to run on readable files
PairwiseStepDue ==
    /\ cpc = "pairwise"
    /\ pair_i < Len(args.paths)
    /\ AllComplete(args.paths)
    /\ FileAt(current_video).st = "complete"

\* C27: on the pairwise path the crossfade of every step is at most half of
\* each of the two original clips next to that transition.
C27_PairwiseTransitionAtMostHalfOfNeighbours ==
    PairwiseStepDue =>
        2 * simple_filter(transition_duration,
                          get_video_duration(current_video)).xfade_duration
            <= Min(FileAt(args.paths[pair_i]).dur,
                   FileAt(args.paths[pair_i + 1]).dur)

\* C28: every video crossfade comes with an audio crossfade of the same
\* duration, in the chained filter graph and in every pairwise step.
C28_AudioCrossfadeWithEveryVideoCrossfade ==
    /\ GraphIsCurrent =>
          \A j \in 1..Len(graph) :
              graph[j].acrossfade_d = graph[j].xfade_duration
    /\ PairwiseStepDue =>
          LET f == simple_filter(transition_duration,
                                 get_video_duration(current_video))
          IN /\ "acrossfade_d" \in DOMAIN f
             /\ f.acrossfade_d = f.xfade_duration

\* the files of the request's temporary directories: the downloaded audio
\* track, the combined video, chunk outputs, pairwise outputs and the output
\* of the stream-copy concat
TemporaryFiles == WrittenPaths \ {FinalPath}

\* C23: once a request has ended, by a successful upload or by a terminal
\* failure, none of its temporary files is left.
C23_WorkspaceRemovedWhenRequestEnds ==
    pc \in {"returned", "failed"} =>
        \A p \in TemporaryFiles : fs[p] = NoFile

\* C24: called with an effect name that is not in its table, each
\* get_motion_filter returns exactly what it returns for "stable" with the
\* same frame count and fps, and does not raise.
C24_UnknownEffectDegradesToStable ==
    fpc = "done" =>
        /\ motion_type \notin MotionTypes =>
              /\ filter_result.services.raised = "none"
              /\ \E rnd \in RandomDraws :
                    filter_result.services =
                        get_motion_filter("stable", filter_frames, filter_fps, rnd)
        /\ motion_type \notin MotionTypes \cup EnhancedMotionTypes =>
              /\ filter_result.utils.raised = "none"
              /\ \E rnd \in RandomDraws :
                    filter_result.utils =
                        video_filters_get_motion_filter("stable", filter_frames,
                                                        filter_fps, rnd)

C24_Witness ==
    /\ fpc = "done"
    /\ motion_type = "spin"
    /\ filter_fps = 60
    /\ filter_frames = 150
    /\ filter_result.services.base.entry = "stable"
    /\ filter_result.services.tblend
    /\ filter_result.utils.base = zoompan("stable", 0, 150, 60)

\* C22: two concurrently running operations never read or write the same
\* intermediate path, and no intermediate file of one lies in a directory
\* that holds an intermediate file of the other.
C22_IntermediatePathsArePerRequest ==
    \A r1 \in DOMAIN touched : \A r2 \in DOMAIN touched :
        r1 # r2 =>
            \A p \in touched[r1] : \A q \in touched[r2] :
                /\ p # q
                /\ p.dir # q.dir

====
